---- MODULE Spec2Model ----
(***************************************************************************)
(* A model of src/libs/jpegdec/lv_jpegdec.c: the LVGL image-decoder glue   *)
(* around the JPEGDEC library.                                             *)
(*                                                                         *)
(*   Spec      one image session on the registered decoder:                *)
(*             decoder_open, decoder_get_area, decoder_close               *)
(*   SpecAlign the first decoder_get_area call of a session, over builds,  *)
(*             subsampling codes and rectangles                            *)
(*   SpecTwo   two image sessions interleaved on the one decoder           *)
(*   SpecScan  decoder_info, the header scanner, run statement by          *)
(*             statement on a byte stream; SpecScanLive adds fairness      *)
(*   SpecImage decoder_info, then a session on the same image              *)
(***************************************************************************)
EXTENDS Integers, Sequences, FiniteSets, TLC

(***************************************************************************)
(* Bounds of the model.                                                    *)
(***************************************************************************)
\* number of heap blocks lv_malloc can hand out before it returns NULL
MaxAddr == 4
\* largest coordinate of a requested rectangle
MaxCoord == 17

(***************************************************************************)
(* Program constants.                                                      *)
(***************************************************************************)
NULL == 0
\* img_dsc->data of an in-memory source: memory the decoder does not own
IMG_DATA == -1
LV_RESULT_INVALID == 0
LV_RESULT_OK == 1
\* the "nothing decoded yet" value of decoded_area->y1
LV_COORD_MIN == -536870911
\* the only value the file builds with: the cache branch of decoder_open
\* names an undeclared variable
LV_CACHE_DEF_SIZE == 0

ColorDepths == {8, 16, 24, 32}
SrcTypes == {"FILE", "VARIABLE", "SYMBOL"}
\* jpg->ucSubSample as JPEG_openRAM leaves it (0x00 for a grayscale image,
\* 0x11, 0x12, 0x21, 0x22)
SubSampleCodes == {0, 17, 18, 33, 34}

\* the builds and images of the session specification
SessionDepths == {16}
SessionCodes == {17, 34}

Addr == 1..MaxAddr

VARIABLES
    LV_COLOR_DEPTH,  \* the build's colour depth
    user_data,       \* decoder->user_data: the JPEGIMAGE of the open image
    dsc,             \* the lv_image_decoder_dsc_t of the session
    decoded_area,    \* the caller's decoded-area record
    heap,            \* state of every block lv_malloc can return
    jpgs,            \* contents of the JPEGIMAGE blocks
    bufs,            \* contents of the lv_draw_buf_t blocks
    opened,          \* the last decoder_open succeeded and no close followed
    completed,       \* a decoder_get_area of this session succeeded on the
                     \* record now in decoded_area
    call,            \* the last callback run: arguments, result, what it did
    ub,              \* undefined behaviour met so far
    own,             \* the JPEGIMAGE this session's decoder_open stored in
                     \* decoder->user_data
    other,           \* the caller's second image session, while the caller
                     \* works on the first
    \* decoder_info
    src_type,        \* lv_image_src_get_type(src)
    data,            \* the bytes of the source; iFileSize is their number
    junk,            \* what memory the source does not define reads as
    pc,              \* the statement decoder_info is at
    cBuf,            \* the 32-byte window
    base,            \* the stream offset cBuf was last filled from
    i, j, iMarker,   \* the locals of decoder_info
    header,          \* the caller's header record
    result,          \* the value decoder_info returned
    f_opens,         \* lv_fs_open calls of this scan that succeeded
    f_closes,        \* lv_fs_close calls of this scan
    prev,            \* the outcome of the scan of the stream without padding
    pad              \* the padding inserted for the second scan

session_vars == <<LV_COLOR_DEPTH, user_data, dsc, decoded_area, heap, jpgs,
                  bufs, opened, completed, call, ub, own, other>>
scan_vars == <<src_type, data, junk, pc, cBuf, base, i, j, iMarker, header,
               result, f_opens, f_closes, prev, pad>>
vars == <<session_vars, scan_vars>>

(***************************************************************************)
(* C integer operators.                                                    *)
(***************************************************************************)
\* a & b on two's-complement integers
RECURSIVE BitAnd(_, _)
BitAnd(a, b) ==
    IF a = 0 \/ b = 0 THEN 0
    ELSE IF a = -1 THEN b
    ELSE IF b = -1 THEN a
    ELSE (a % 2) * (b % 2) + 2 * BitAnd(a \div 2, b \div 2)

\* ~a
BitNot(a) == -a - 1

(***************************************************************************)
(* The heap: lv_malloc, lv_free.                                           *)
(***************************************************************************)
CanAlloc(h) == \E a \in Addr : h[a] = "unalloc"

\* the block lv_malloc returns: blocks are never handed out twice, so that
\* a stale pointer stays recognisable
NewBlock(h) == CHOOSE a \in Addr : h[a] = "unalloc" /\ \A b \in Addr : b < a => h[b] # "unalloc"

\* lv_malloc succeeded
lv_malloc(h) == [h EXCEPT ![NewBlock(h)] = "live"]

\* lv_free(p): NULL is ignored; freeing a block twice is recorded
lv_free(h, p) ==
    IF p \notin Addr THEN h
    ELSE [h EXCEPT ![p] = IF @ = "live" THEN "freed" ELSE "refreed"]

Dangling(h, p) == p \in Addr /\ h[p] # "live"

\* The contents of a block that is not live are indeterminate.  The model
\* keeps the pointers a freed block held, which the code reads again when it
\* uses a stale descriptor, and forgets the rest.
ScrubJpgs(js, h) ==
    [a \in Addr |-> IF h[a] = "live" THEN js[a]
                    ELSE [pData |-> js[a].pData, ucSubSample |-> 0,
                          pFramebuffer |-> js[a].pFramebuffer,
                          ucPixelType |-> "NONE", iCropX |-> 0, iCropY |-> 0,
                          iCropCX |-> 0, iCropCY |-> 0]]

ScrubBufs(bs, h) ==
    [a \in Addr |-> IF h[a] = "live" THEN bs[a]
                    ELSE [data |-> bs[a].data, data_size |-> 0,
                          header |-> [cf |-> "UNKNOWN", w |-> 0, h |-> 0, stride |-> 0]]]

(***************************************************************************)
(* decoder_get_area                                                        *)
(***************************************************************************)
\* (iMCUCX, iMCUCY) from the subsampling code
MCUSize(ucSubSample) ==
    CASE ucSubSample = 33 -> [cx |-> 16, cy |-> 8]
      [] ucSubSample = 18 -> [cx |-> 8, cy |-> 16]
      [] ucSubSample = 34 -> [cx |-> 16, cy |-> 16]
      [] OTHER -> [cx |-> 8, cy |-> 8]

\* a left or top edge that is not rounded
AlignNone(v, m) == v

\* full_area->x1 & ~(iMCUCX-1)
AlignDown(v, m) == BitAnd(v, BitNot(m - 1))

\* ((full_area->x2 + iMCUCX-1) & ~(iMCUCX-1)) - 1
AlignUp(v, m) == BitAnd(v + m - 1, BitNot(m - 1)) - 1

AlignArea(full_area, mcu) ==
    [x1 |-> AlignDown(full_area.x1, mcu.cx),
     y1 |-> AlignDown(full_area.y1, mcu.cy),
     x2 |-> AlignUp(full_area.x2, mcu.cx),
     y2 |-> AlignUp(full_area.y2, mcu.cy)]

\* a sentinel test by sign instead of by value
IsPendingBySign(area) == area.y1 < 0

\* the test that the record is still untouched
IsPending(area) == area.y1 = LV_COORD_MIN

\* jpg->ucPixelType
PixelType(iBPP) ==
    IF iBPP = 4 THEN "RGB8888"
    ELSE IF iBPP = 2 THEN "RGB565_LITTLE_ENDIAN"
    ELSE "EIGHT_BIT_GRAYSCALE"

\* decoded->header.cf
RegionFormat(iBPP) ==
    IF iBPP = 4 THEN "ARGB8888"
    ELSE IF iBPP = 2 THEN "RGB565"
    ELSE "L8"

\* the record a caller hands in before the first call
FreshArea == [x1 |-> LV_COORD_MIN, y1 |-> LV_COORD_MIN, x2 |-> LV_COORD_MIN, y2 |-> LV_COORD_MIN]

NoArea == [x1 |-> 0, y1 |-> 0, x2 |-> 0, y2 |-> 0]

BlankHeader == [cf |-> "UNKNOWN", w |-> 0, h |-> 0, stride |-> 0]
BlankBuf == [data |-> NULL, data_size |-> 0, header |-> BlankHeader]
BlankJpg == [pData |-> NULL, ucSubSample |-> 0, pFramebuffer |-> NULL,
             ucPixelType |-> "NONE", iCropX |-> 0, iCropY |-> 0,
             iCropCX |-> 0, iCropCY |-> 0]

Call(op, rc) ==
    [op |-> op, rc |-> rc, fresh |-> FALSE, pending |-> FALSE, allocs |-> {},
     decode |-> "none", full_area |-> NoArea, fopen |-> 0, fclose |-> 0,
     src_type |-> "NONE", jpg |-> NULL, own |-> NULL]

\* requested rectangles of the alignment specification: every pair of x
\* coordinates with every pair of y coordinates
Coords == {-MaxCoord + 8, -8, 0, 7, 8, MaxCoord - 1, MaxCoord}
Pairs == {p \in Coords \X Coords : p[1] <= p[2]}
FullAreas ==
    {[x1 |-> p[1], y1 |-> q[1], x2 |-> p[2], y2 |-> q[2]] : p \in Pairs, q \in Pairs}

\* requested rectangles of the session specification: an ordinary one, and
\* one whose y1 is LV_COORD_MIN itself
SessionAreas ==
    {[x1 |-> -MaxCoord + 8, y1 |-> 0, x2 |-> MaxCoord, y2 |-> 7],
     [x1 |-> 0, y1 |-> LV_COORD_MIN, x2 |-> 7, y2 |-> LV_COORD_MIN]}

\* a read through a null pointer that faults
Faults == [fault |-> TRUE, code |-> 0]

\* at_null: what the read of jpg->ucSubSample gives when decoder->user_data
\* is NULL: the call faults, or it reads some code and carries on, its stores
\* through jpg landing outside the blocks of the heap
decoder_get_area(full_area, fresh, m_dsc, m_data, rc_dec, at_null) ==
    /\ opened
    /\ LET iBPP == LV_COLOR_DEPTH \div 8
           jpg == user_data
           rec == IF jpg = NULL THEN [BlankJpg EXCEPT !.ucSubSample = at_null.code]
                  ELSE jpgs[jpg]
           mcu == MCUSize(rec.ucSubSample)
           ub0 == ub \cup (IF jpg = NULL THEN {"null_handle"} ELSE {})
           in_area == IF fresh THEN FreshArea ELSE decoded_area
           c0 == [Call("get_area", LV_RESULT_INVALID) EXCEPT
                     !.fresh = fresh, !.pending = IsPending(in_area),
                     !.full_area = IF IsPending(in_area) THEN full_area ELSE NoArea,
                     !.jpg = jpg, !.own = own]
       IN
       IF jpg = NULL /\ at_null.fault
       THEN \* the call does not get past line 67
            /\ call' = [c0 EXCEPT !.pending = FALSE, !.full_area = NoArea]
            /\ ub' = ub0
            /\ UNCHANGED <<user_data, dsc, decoded_area, heap, jpgs, bufs, completed>>
       ELSE IF ~IsPending(in_area)
       THEN \* called again: report that the work is finished
            /\ decoded_area' = in_area
            /\ call' = c0
            /\ ub' = ub0
            /\ UNCHANGED <<user_data, dsc, heap, jpgs, bufs, completed>>
       ELSE
       LET area == AlignArea(full_area, mcu)
           w == (area.x2 - area.x1) + 1
           h == (area.y2 - area.y1) + 1
           have == dsc.decoded # NULL
           ok1 == have \/ (m_dsc /\ CanAlloc(heap))
           \* the lv_draw_buf_t
           h1 == IF have \/ ~ok1 THEN heap ELSE lv_malloc(heap)
           decoded == IF have THEN dsc.decoded
                      ELSE IF ok1 THEN NewBlock(heap) ELSE NULL
           \* its pixel data
           ok2 == have \/ (ok1 /\ m_data /\ CanAlloc(h1))
           h2 == IF have \/ ~ok2 THEN h1 ELSE lv_malloc(h1)
           pixels == IF have THEN bufs[decoded].data
                     ELSE IF ok2 THEN NewBlock(h1) ELSE NULL
           b1 == IF have THEN bufs[decoded]
                 ELSE [data |-> pixels, data_size |-> (iBPP * w) * h,
                       header |-> dsc.header]
           b2 == [b1 EXCEPT !.header.w = w, !.header.h = h,
                            !.header.stride = w * (LV_COLOR_DEPTH \div 8)]
           j1 == [rec EXCEPT !.pFramebuffer = b2.data,
                                   !.ucPixelType = PixelType(iBPP),
                                   !.iCropX = area.x1, !.iCropY = area.y1,
                                   !.iCropCX = w, !.iCropCY = h]
           new == (IF ~have /\ ok1 THEN {decoded} ELSE {})
                    \cup (IF ~have /\ ok2 THEN {pixels} ELSE {})
       IN
       /\ decoded_area' = area
       /\ IF ~ok1
          THEN \* allocation of decoded structure failed
               /\ call' = c0
               /\ completed' = FALSE
               /\ ub' = ub0
               /\ UNCHANGED <<user_data, dsc, heap, jpgs, bufs>>
          ELSE IF ~ok2
          THEN \* allocation of decoded->data failed
               /\ heap' = lv_free(h1, decoded)
               /\ bufs' = ScrubBufs([bufs EXCEPT ![decoded] = b1], heap')
               /\ dsc' = [dsc EXCEPT !.decoded = NULL]
               /\ call' = [c0 EXCEPT !.allocs = new]
               /\ completed' = FALSE
               /\ ub' = ub0
               /\ UNCHANGED <<user_data, jpgs>>
          ELSE
               /\ dsc' = [dsc EXCEPT !.decoded = decoded]
               /\ jpgs' = IF jpg = NULL THEN jpgs ELSE [jpgs EXCEPT ![jpg] = j1]
               /\ ub' = ub0 \cup (IF Dangling(h2, b2.data) THEN {"decode_into_freed"} ELSE {})
               /\ UNCHANGED user_data
               /\ completed' = rc_dec
               /\ IF ~rc_dec
                  THEN \* JPEG_decode failed
                       /\ heap' = lv_free(h2, b2.data)
                       /\ bufs' = [bufs EXCEPT ![decoded] = b2]
                       /\ call' = [c0 EXCEPT !.allocs = new, !.decode = "fail"]
                  ELSE /\ heap' = h2
                       /\ bufs' = [bufs EXCEPT ![decoded] = [b2 EXCEPT !.header.cf = RegionFormat(iBPP)]]
                       /\ call' = [c0 EXCEPT !.allocs = new, !.decode = "ok",
                                             !.rc = LV_RESULT_OK]
    /\ UNCHANGED <<LV_COLOR_DEPTH, opened, own, other>>

(***************************************************************************)
(* decoder_open                                                            *)
(***************************************************************************)
\* JPEG_openRAM(jpg, jpeg_data, size): the library records the stream in
\* jpg->JPEGFile.pData and, when it accepts the stream, its subsampling
JPEG_openRAM(jpeg_data, rc, ucSubSample) ==
    [BlankJpg EXCEPT !.pData = jpeg_data,
                     !.ucSubSample = IF rc THEN ucSubSample ELSE 0]

\* the descriptor the caller hands to decoder_open: zeroed, then src_type,
\* the header decoder_info gave and the arguments filled in
NewDsc(st, no_cache) ==
    [src_type |-> st, decoded |-> NULL, no_cache |-> no_cache,
     header |-> BlankHeader]

decoder_open(st, ext_ok, no_cache, m_jpg, fs_ok, seek_ok, m_file, read_ok, rc_open, ss) ==
    /\ ~opened
    /\ LET d0 == NewDsc(st, no_cache)
           c0 == [Call("open", LV_RESULT_INVALID) EXCEPT !.src_type = st]
           ok_jpg == m_jpg /\ CanAlloc(heap)
           jpg == NewBlock(heap)
           h1 == lv_malloc(heap)
           is_file == st = "FILE" /\ ext_ok
           ok_file == m_file /\ CanAlloc(h1)
           jpeg_data == IF is_file THEN NewBlock(h1)
                        ELSE IF st = "VARIABLE" THEN IMG_DATA ELSE NULL
           h2 == IF is_file THEN lv_malloc(h1) ELSE h1
           rc == rc_open /\ jpeg_data # NULL
       IN
       /\ completed' = FALSE
       /\ dsc' = d0
       /\ IF ~ok_jpg
          THEN \* allocation of JPEGIMAGE structure failed
               /\ call' = c0
               /\ opened' = FALSE
               /\ UNCHANGED <<user_data, heap, jpgs>>
          ELSE IF is_file /\ ~fs_ok
          THEN \* file open error
               /\ heap' = lv_free(h1, jpg)
               /\ call' = [c0 EXCEPT !.allocs = {jpg}]
               /\ opened' = FALSE
               /\ UNCHANGED <<user_data, jpgs>>
          ELSE IF is_file /\ (~seek_ok \/ ~ok_file)
          THEN \* seek failed, or not enough RAM for the file
               /\ heap' = lv_free(h1, jpg)
               /\ call' = [c0 EXCEPT !.allocs = {jpg}, !.fopen = 1, !.fclose = 1]
               /\ opened' = FALSE
               /\ UNCHANGED <<user_data, jpgs>>
          ELSE IF is_file /\ ~read_ok
          THEN \* short read: the file is closed a second time
               /\ heap' = lv_free(lv_free(h2, jpeg_data), jpg)
               /\ call' = [c0 EXCEPT !.allocs = {jpg, jpeg_data}, !.fopen = 1, !.fclose = 2]
               /\ opened' = FALSE
               /\ UNCHANGED <<user_data, jpgs>>
          ELSE IF st \notin {"FILE", "VARIABLE"}
          THEN /\ heap' = lv_free(h1, jpg)
               /\ call' = [c0 EXCEPT !.allocs = {jpg}]
               /\ opened' = FALSE
               /\ UNCHANGED <<user_data, jpgs>>
          ELSE
               LET c1 == [c0 EXCEPT !.allocs = {jpg} \cup (IF is_file THEN {jpeg_data} ELSE {}),
                                    !.fopen = IF is_file THEN 1 ELSE 0,
                                    !.fclose = IF is_file THEN 1 ELSE 0]
               IN
               /\ user_data' = jpg
               /\ jpgs' = [jpgs EXCEPT ![jpg] = JPEG_openRAM(jpeg_data, rc, ss)]
               /\ IF ~rc
                  THEN \* JPEG_openRAM failed
                       /\ heap' = IF st = "FILE" THEN lv_free(h2, jpeg_data) ELSE h2
                       /\ call' = c1
                       /\ opened' = FALSE
                  ELSE /\ heap' = h2
                       /\ call' = [c1 EXCEPT !.rc = LV_RESULT_OK]
                       /\ opened' = TRUE
       \* the handle of this session: the block stored at line 326, if the
       \* call got that far
       /\ own' = IF ok_jpg /\ user_data' = jpg THEN jpg ELSE NULL
    /\ UNCHANGED <<LV_COLOR_DEPTH, decoded_area, bufs, ub, other>>

(***************************************************************************)
(* decoder_close                                                           *)
(***************************************************************************)
\* lv_draw_buf_destroy(draw_buf): releases the pixel data and the descriptor
lv_draw_buf_destroy(h, b, p) ==
    IF p = NULL THEN h ELSE lv_free(lv_free(h, b[p].data), p)

decoder_close ==
    LET jpg == user_data
        h1 == IF jpg = NULL THEN heap
              ELSE lv_free(IF dsc.src_type = "FILE"
                           THEN lv_free(heap, jpgs[jpg].pData) ELSE heap, jpg)
        destroy == dsc.no_cache \/ LV_CACHE_DEF_SIZE = 0
    IN
    /\ user_data' = NULL
    /\ heap' = IF destroy THEN lv_draw_buf_destroy(h1, bufs, dsc.decoded) ELSE h1
    /\ ub' = ub \cup (IF destroy /\ Dangling(h1, dsc.decoded) THEN {"destroy_freed"} ELSE {})
    /\ opened' = FALSE
    /\ completed' = FALSE
    /\ jpgs' = ScrubJpgs(jpgs, heap')
    /\ bufs' = ScrubBufs(bufs, heap')
    /\ call' = [Call("close", LV_RESULT_OK) EXCEPT
                    !.src_type = dsc.src_type, !.jpg = jpg, !.own = own]
    /\ own' = NULL
    /\ UNCHANGED <<LV_COLOR_DEPTH, dsc, decoded_area, other>>

(***************************************************************************)
(* The session specification.                                              *)
(***************************************************************************)
ScanIdle ==
    /\ src_type = "NONE" /\ data = <<>> /\ junk = <<>> /\ pc = "off"
    /\ cBuf = <<>> /\ base = 0 /\ i = 0 /\ j = 0 /\ iMarker = 0
    /\ header = BlankHeader /\ result = LV_RESULT_INVALID
    /\ f_opens = 0 /\ f_closes = 0
    /\ prev = [valid |-> FALSE, data |-> <<>>, result |-> LV_RESULT_INVALID, header |-> BlankHeader]
    /\ pad = [pos |-> 0, len |-> 0]

\* a session the caller has not opened
IdleSession ==
    [dsc |-> NewDsc("NONE", FALSE), decoded_area |-> FreshArea,
     opened |-> FALSE, completed |-> FALSE, own |-> NULL]

SessionIdle ==
    /\ user_data = NULL
    /\ dsc = NewDsc("NONE", FALSE)
    /\ decoded_area = FreshArea
    /\ heap = [a \in Addr |-> "unalloc"]
    /\ jpgs = [a \in Addr |-> BlankJpg]
    /\ bufs = [a \in Addr |-> BlankBuf]
    /\ opened = FALSE
    /\ completed = FALSE
    /\ call = Call("none", LV_RESULT_INVALID)
    /\ ub = {}
    /\ own = NULL
    /\ other = IdleSession

Init ==
    /\ LV_COLOR_DEPTH \in SessionDepths
    /\ SessionIdle
    /\ ScanIdle

\* what the environment does to one decoder_open call: the first step that
\* fails, if any
OpenInputs ==
    {[st |-> "FILE", ext_ok |-> TRUE, fail |-> f, ss |-> 0] :
        f \in {"jpg", "fs_open", "fs_seek", "file", "fs_read", "openRAM"}}
    \cup {[st |-> "FILE", ext_ok |-> FALSE, fail |-> f, ss |-> 0] : f \in {"jpg", "openRAM"}}
    \cup {[st |-> "VARIABLE", ext_ok |-> FALSE, fail |-> f, ss |-> 0] : f \in {"jpg", "openRAM"}}
    \cup {[st |-> "SYMBOL", ext_ok |-> FALSE, fail |-> f, ss |-> 0] : f \in {"jpg", "none"}}
    \cup {[st |-> st, ext_ok |-> TRUE, fail |-> "none", ss |-> ss] :
        st \in {"FILE", "VARIABLE"}, ss \in SessionCodes}

OpenStep ==
    \* dsc->args.no_cache is read at line 337 and at line 371; with
    \* LV_CACHE_DEF_SIZE 0 both values take the same path, and the session
    \* specification follows FALSE (the other specifications follow TRUE)
    /\ \E in \in OpenInputs, no_cache \in {FALSE} :
          decoder_open(in.st, in.ext_ok, no_cache, in.fail # "jpg",
                       in.fail # "fs_open", in.fail # "fs_seek", in.fail # "file",
                       in.fail # "fs_read", in.fail # "openRAM", in.ss)
    /\ UNCHANGED scan_vars

GetAreaStep ==
    /\ \E full_area \in SessionAreas, fresh \in BOOLEAN,
          fail \in {"dsc", "data", "decode", "none"} :
          decoder_get_area(full_area, fresh, fail # "dsc", fail # "data", fail # "decode",
                           Faults)
    /\ UNCHANGED scan_vars

CloseStep ==
    /\ decoder_close
    /\ UNCHANGED scan_vars

Next == OpenStep \/ GetAreaStep \/ CloseStep

Spec == Init /\ [][Next]_vars

(***************************************************************************)
(* The alignment specification: the first decoder_get_area call of a       *)
(* session that decoder_open has just opened on an in-memory image, for    *)
(* every build, every subsampling code and every requested rectangle.      *)
(***************************************************************************)
EmptyHeap == [a \in Addr |-> "unalloc"]

InitAlign ==
    /\ LV_COLOR_DEPTH \in ColorDepths
    /\ user_data = NewBlock(EmptyHeap)
    /\ dsc = NewDsc("VARIABLE", TRUE)
    /\ decoded_area = FreshArea
    /\ heap = lv_malloc(EmptyHeap)
    /\ \E ss \in SubSampleCodes :
          jpgs = [a \in Addr |-> IF a = NewBlock(EmptyHeap)
                                 THEN JPEG_openRAM(IMG_DATA, TRUE, ss) ELSE BlankJpg]
    /\ bufs = [a \in Addr |-> BlankBuf]
    /\ opened = TRUE
    /\ completed = FALSE
    /\ call = [Call("open", LV_RESULT_OK) EXCEPT
                  !.allocs = {NewBlock(EmptyHeap)}, !.src_type = "VARIABLE"]
    /\ ub = {}
    /\ own = NewBlock(EmptyHeap)
    /\ other = IdleSession
    /\ ScanIdle

FirstAreaStep ==
    /\ call.op = "open"
    /\ \E full_area \in FullAreas, fail \in {"dsc", "data", "decode", "none"} :
          decoder_get_area(full_area, TRUE, fail # "dsc", fail # "data", fail # "decode",
                           Faults)
    /\ UNCHANGED scan_vars

NextAlign == FirstAreaStep

SpecAlign == InitAlign /\ [][NextAlign]_vars

(***************************************************************************)
(* decoder_info                                                            *)
(***************************************************************************)
\* sizeof(cBuf)
CBUF_SIZE == 32
SOF0 == 65472

\* MOTOSHORT(p): the big-endian 16-bit value at p
MOTOSHORT(b0, b1) == b0 * 256 + b1


\* cBuf[k]; an index past the array reads the stack behind it
CB(buf, k) == IF k < CBUF_SIZE THEN buf[k] ELSE junk[(k % 2) + 1]

\* the window before anything is read into it
Uninitialised == [k \in 0..(CBUF_SIZE - 1) |-> junk[(k % 2) + 1]]

\* lv_fs_seek(&f, off); lv_fs_read(&f, cBuf, sizeof(cBuf), &rn): a read
\* that meets the end of the file leaves the rest of cBuf as it was
ReadWindow(buf, d, off) ==
    [k \in 0..(CBUF_SIZE - 1) |-> IF off + k < Len(d) THEN d[off + k + 1] ELSE buf[k]]

\* lv_memcpy(cBuf, &img_dsc->data[off], sizeof(cBuf)): the copy runs past
\* the end of the data
CopyWindow(d, off) ==
    [k \in 0..(CBUF_SIZE - 1) |-> IF off + k < Len(d) THEN d[off + k + 1] ELSE junk[(k % 2) + 1]]

FillWindow(st, buf, d, off) ==
    IF st = "FILE" THEN ReadWindow(buf, d, off) ELSE CopyWindow(d, off)

\* a skip that does not move
SkipNothing(jj, len) == jj

\* a skip that forgets the two bytes of the marker code
SkipLengthOnly(jj, len) == jj + len

\* j += 2 + MOTOSHORT(&cBuf[i + 2]); j is below iFileSize before the
\* addition, so the 32-bit sum does not wrap
SkipSegment(jj, len) == jj + 2 + len

\* a format chosen from the build's colour depth alone
InfoFormatByDepth(iBpp, depth) ==
    IF depth = 8 THEN "L8"
    ELSE IF depth = 16 THEN "RGB565"
    ELSE "ARGB8888"

\* header->cf
InfoFormat(iBpp, depth) ==
    IF iBpp = 8 \/ depth = 8 THEN "L8"
    ELSE IF depth = 16 THEN "RGB565"
    ELSE "ARGB8888"

\* a test of the masked marker code, as the loop makes it
IsFrameKind(m) == BitAnd(m, 65532) = SOF0

\* iMarker = MOTOSHORT(&cBuf[i]); only baseline images are supported
IsBaseline(m) == m = SOF0

\* a header filled in before the marker is looked at again
StoreAlways(hdr, m, new) == new

\* header->cf, w, h, stride are stored on the baseline path only
StoreHeader(hdr, m, new) == IF IsBaseline(m) THEN new ELSE hdr

\* lines 178-206: the locals, the source type, the first window
InfoBegin(fs_ok) ==
    /\ pc = "start"
    /\ i' = 2 /\ j' = 2 /\ iMarker' = 0
    /\ base' = 0
    /\ IF src_type = "FILE" /\ ~fs_ok
       THEN \* can't open the file
            /\ cBuf' = Uninitialised
            /\ result' = LV_RESULT_INVALID
            /\ pc' = "done"
            /\ UNCHANGED f_opens
       ELSE /\ cBuf' = FillWindow(src_type, Uninitialised, data, 0)
            /\ f_opens' = IF src_type = "FILE" THEN f_opens + 1 ELSE f_opens
            /\ pc' = "soi"
            /\ UNCHANGED result
    /\ UNCHANGED <<LV_COLOR_DEPTH, src_type, data, junk, header, f_closes, prev, pad>>

\* line 208, and line 259 when the test fails
InfoSoi ==
    /\ pc = "soi"
    /\ IF cBuf[0] = 255 /\ cBuf[1] = 216
       THEN pc' = "loop" /\ UNCHANGED result
       ELSE pc' = "done" /\ result' = LV_RESULT_INVALID
    /\ UNCHANGED <<LV_COLOR_DEPTH, src_type, data, junk, cBuf, base, i, j, iMarker,
                   header, f_opens, f_closes, prev, pad>>

\* lines 209-228: the loop test and one pass of the loop
InfoLoop ==
    /\ pc = "loop"
    /\ IF ~(i < CBUF_SIZE /\ iMarker # SOF0 /\ j < Len(data))
       THEN pc' = "after" /\ UNCHANGED <<cBuf, base, i, j, iMarker>>
       ELSE LET m == BitAnd(MOTOSHORT(CB(cBuf, i), CB(cBuf, i + 1)), 65532)
                j1 == SkipSegment(j, MOTOSHORT(CB(cBuf, i + 2), CB(cBuf, i + 3)))
            IN
            /\ iMarker' = m
            /\ IF m < 65280
               THEN \* invalid marker: skip 2 bytes and try to resync
                    i' = i + 2 /\ pc' = "loop" /\ UNCHANGED <<cBuf, base, j>>
               ELSE IF m = SOF0
               THEN \* the one we're looking for
                    pc' = "after" /\ UNCHANGED <<cBuf, base, i, j>>
               ELSE /\ j' = j1
                    /\ pc' = "loop"
                    /\ IF j1 < Len(data)
                       THEN /\ cBuf' = FillWindow(src_type, cBuf, data, j1)
                            /\ base' = j1
                            /\ i' = 0
                       ELSE UNCHANGED <<cBuf, base, i>>
    /\ UNCHANGED <<LV_COLOR_DEPTH, src_type, data, junk, header, result,
                   f_opens, f_closes, prev, pad>>

\* lines 229-257
InfoAfter ==
    /\ pc = "after"
    /\ pc' = "done"
    /\ f_closes' = IF src_type = "FILE" THEN f_closes + 1 ELSE f_closes
    /\ IF iMarker # SOF0
       THEN result' = LV_RESULT_INVALID /\ UNCHANGED <<iMarker, header>>
       ELSE LET h == MOTOSHORT(CB(cBuf, i + 5), CB(cBuf, i + 6))
                w == MOTOSHORT(CB(cBuf, i + 7), CB(cBuf, i + 8))
                iBpp == CB(cBuf, i + 4) * CB(cBuf, i + 9)
                m == MOTOSHORT(CB(cBuf, i), CB(cBuf, i + 1))
            IN
            /\ iMarker' = m
            /\ header' = StoreHeader(header, m,
                              [cf |-> InfoFormat(iBpp, LV_COLOR_DEPTH),
                               w |-> w, h |-> h,
                               stride |-> w * (LV_COLOR_DEPTH \div 8)])
            /\ result' = IF IsBaseline(m) THEN LV_RESULT_OK
                          ELSE \* only baseline images are supported
                               LV_RESULT_INVALID
    /\ UNCHANGED <<LV_COLOR_DEPTH, src_type, data, junk, cBuf, base, i, j,
                   f_opens, prev, pad>>

(***************************************************************************)
(* The streams decoder_info is run on.                                     *)
(***************************************************************************)
\* segments before the frame header in one stream
MaxSegs == 2
\* payload bytes of the long segment
MaxPayload == 30

Hi(n) == n \div 256
Lo(n) == n % 256
Zeros(n) == [k \in 1..n |-> 0]

\* a marker segment: the code, the length of what follows, the payload
Segment(code, payload) ==
    <<255, code, Hi(Len(payload) + 2), Lo(Len(payload) + 2)>> \o payload

Components(nc) ==
    [k \in 1..(3 * nc) |-> IF k % 3 = 1 THEN (k + 2) \div 3
                           ELSE IF k % 3 = 2 THEN 17 ELSE 0]

\* a frame header of 258 rows and 772 columns
Frame(code, nc) ==
    Segment(code, <<8, 1, 2, 3, 4, nc>> \o Components(nc))

\* a short comment whose text is the bytes FF C0, and a long table that
\* pushes what follows out of the first window
SegKinds ==
    {Segment(254, <<255, 192>>), Segment(219, Zeros(MaxPayload))}

RECURSIVE Flatten(_)
Flatten(ss) == IF ss = <<>> THEN <<>> ELSE Head(ss) \o Flatten(Tail(ss))

Heads ==
    {<<255, 216>> \o Flatten(ss) :
        ss \in UNION {[1..n -> SegKinds] : n \in 0..MaxSegs}}

Streams ==
    \* whole streams: baseline, progressive, without a frame header
    {hd \o fr : hd \in Heads,
                fr \in {Frame(192, 1), Frame(192, 3), Frame(193, 3), Frame(194, 3),
                        Frame(195, 1), <<>>}}
    \* streams that end inside the frame header
    \cup {SubSeq(hd \o Frame(192, 1), 1, Len(hd) + k) : hd \in Heads, k \in {4, 8, 10}}
    \* streams that do not start with FF D8
    \cup {<<0, 0>> \o Frame(192, 1), <<255, 217>> \o Frame(192, 1)}

\* what uninitialised and foreign memory holds
JunkPatterns == {<<0, 0>>, <<255, 192>>}

(***************************************************************************)
(* The structure of a stream, read without a window.                       *)
(***************************************************************************)
SegLen(d, p) == d[p + 3] * 256 + d[p + 4]

\* the offsets of the markers met from offset p on, skipping each segment
\* by its length, up to the first frame header
RECURSIVE Markers(_, _)
Markers(d, p) ==
    IF p + 4 > Len(d) \/ d[p + 1] # 255 THEN {}
    ELSE {p} \cup (IF d[p + 2] \in 192..195 \/ SegLen(d, p) < 2 THEN {}
                   ELSE Markers(d, p + 2 + SegLen(d, p)))

\* the codes of the segments that carry a length and are no frame header
TableCodes == (196..207) \cup (218..254)

HasFrame(d) == \E p \in Markers(d, 2) : d[p + 2] \in 192..195
FramePos(d) == CHOOSE p \in Markers(d, 2) : d[p + 2] \in 192..195

\* FF D8, length-prefixed segments, then an SOF0 segment wholly inside
IsValidBaseline(d) ==
    /\ Len(d) >= 2 /\ d[1] = 255 /\ d[2] = 216
    /\ HasFrame(d)
    /\ \A p \in Markers(d, 2) : p # FramePos(d) => d[p + 2] \in TableCodes
    /\ d[FramePos(d) + 2] = 192
    /\ SegLen(d, FramePos(d)) >= 11
    /\ FramePos(d) + 2 + SegLen(d, FramePos(d)) <= Len(d)

\* FF D8, length-prefixed segments, then a frame header that is SOF1, SOF2
\* or SOF3; no SOF0 segment
IsVariantFramed(d) ==
    /\ Len(d) >= 2 /\ d[1] = 255 /\ d[2] = 216
    /\ HasFrame(d)
    /\ \A p \in Markers(d, 2) : p # FramePos(d) => d[p + 2] \in TableCodes
    /\ d[FramePos(d) + 2] \in 193..195

SofHeight(d) == d[FramePos(d) + 6] * 256 + d[FramePos(d) + 7]
SofWidth(d) == d[FramePos(d) + 8] * 256 + d[FramePos(d) + 9]

(***************************************************************************)
(* The scanner specification: decoder_info on a stream, then once more on  *)
(* the same stream with padding inserted before one of its markers.        *)
(***************************************************************************)
\* numbers of padding bytes
PadLens == {2, 22}

\* the caller scans the stream again, with zero bytes put before one of its
\* markers
InfoAgain ==
    /\ pc = "done"
    /\ ~prev.valid
    /\ src_type = "FILE" => f_opens = 1
    /\ \E pos \in Markers(data, 2), len \in PadLens :
          /\ data' = SubSeq(data, 1, pos) \o Zeros(len) \o SubSeq(data, pos + 1, Len(data))
          /\ pad' = [pos |-> pos, len |-> len]
    /\ prev' = [valid |-> TRUE, data |-> data, result |-> result, header |-> header]
    /\ pc' = "start"
    /\ cBuf' = <<>> /\ base' = 0 /\ i' = 0 /\ j' = 0 /\ iMarker' = 0
    /\ result' = LV_RESULT_INVALID
    /\ f_opens' = 0 /\ f_closes' = 0
    \* the caller hands in the header record the first scan left
    /\ UNCHANGED <<LV_COLOR_DEPTH, src_type, junk, header>>

InitScan ==
    /\ LV_COLOR_DEPTH \in ColorDepths
    /\ SessionIdle
    /\ src_type \in {"FILE", "VARIABLE"}
    /\ data \in Streams
    /\ junk \in JunkPatterns
    /\ pc = "start"
    /\ cBuf = <<>> /\ base = 0 /\ i = 0 /\ j = 0 /\ iMarker = 0
    /\ header = BlankHeader /\ result = LV_RESULT_INVALID
    /\ f_opens = 0 /\ f_closes = 0
    /\ prev = [valid |-> FALSE, data |-> <<>>, result |-> LV_RESULT_INVALID, header |-> BlankHeader]
    /\ pad = [pos |-> 0, len |-> 0]

BeginStep == (\E fs_ok \in BOOLEAN : InfoBegin(fs_ok)) /\ UNCHANGED session_vars
SoiStep == InfoSoi /\ UNCHANGED session_vars
LoopStep == InfoLoop /\ UNCHANGED session_vars
AfterStep == InfoAfter /\ UNCHANGED session_vars
AgainStep == InfoAgain /\ UNCHANGED session_vars

NextScan == BeginStep \/ SoiStep \/ LoopStep \/ AfterStep \/ AgainStep

SpecScan == InitScan /\ [][NextScan]_vars

\* The termination specification.  decoder_info is a sequential function: a
\* statement that can run does run.  The colour depth enters only the header
\* that is stored after the loop, so one build is followed.
InitScanLive == InitScan /\ LV_COLOR_DEPTH = 16

SpecScanLive == InitScanLive /\ [][NextScan]_vars /\ WF_vars(NextScan)

(***************************************************************************)
(* The two-image specification: the caller opens a second image on the     *)
(* registered decoder before it has closed the first, and turns from one   *)
(* to the other between calls.  The decoder and the heap are shared; each  *)
(* image has its own descriptor and decoded-area record.                   *)
(***************************************************************************)
\* what a read through a null decoder->user_data can give
NullReads == {Faults} \cup {[fault |-> FALSE, code |-> c] : c \in SessionCodes}

TwoOpenStep ==
    /\ \E st \in {"FILE", "VARIABLE"}, ss \in SessionCodes :
          decoder_open(st, TRUE, TRUE, TRUE, TRUE, TRUE, TRUE, TRUE, TRUE, ss)
    /\ UNCHANGED scan_vars

TwoAreaStep ==
    /\ \E rc_dec \in BOOLEAN, at_null \in NullReads :
          decoder_get_area([x1 |-> 0, y1 |-> 0, x2 |-> 7, y2 |-> 7], TRUE, TRUE, TRUE,
                           rc_dec, at_null)
    /\ UNCHANGED scan_vars

TwoCloseStep ==
    /\ opened
    /\ decoder_close
    /\ UNCHANGED scan_vars

\* the caller turns to its other image
SwitchStep ==
    /\ other' = [dsc |-> dsc, decoded_area |-> decoded_area, opened |-> opened,
                 completed |-> completed, own |-> own]
    /\ dsc' = other.dsc
    /\ decoded_area' = other.decoded_area
    /\ opened' = other.opened
    /\ completed' = other.completed
    /\ own' = other.own
    /\ UNCHANGED <<LV_COLOR_DEPTH, user_data, heap, jpgs, bufs, call, ub>>
    /\ UNCHANGED scan_vars

NextTwo == TwoOpenStep \/ TwoAreaStep \/ TwoCloseStep \/ SwitchStep

SpecTwo == Init /\ [][NextTwo]_vars

(***************************************************************************)
(* The image specification: decoder_info on a baseline image, then a       *)
(* session on the same image in the same build.                            *)
(***************************************************************************)
\* grayscale and colour baseline images
ImageStreams == {hd \o fr : hd \in Heads, fr \in {Frame(192, 1), Frame(192, 3)}}

\* jpg->ucSubSample of an image: 0 for one component, else the sampling
\* factors of the first component
ImageSubSample(d) ==
    IF d[FramePos(d) + 10] = 1 THEN 0 ELSE d[FramePos(d) + 12]

InitImage ==
    /\ LV_COLOR_DEPTH \in ColorDepths
    /\ SessionIdle
    /\ src_type \in {"FILE", "VARIABLE"}
    /\ data \in ImageStreams
    /\ junk \in JunkPatterns
    /\ pc = "start"
    /\ cBuf = <<>> /\ base = 0 /\ i = 0 /\ j = 0 /\ iMarker = 0
    /\ header = BlankHeader /\ result = LV_RESULT_INVALID
    /\ f_opens = 0 /\ f_closes = 0
    /\ prev = [valid |-> FALSE, data |-> <<>>, result |-> LV_RESULT_INVALID, header |-> BlankHeader]
    /\ pad = [pos |-> 0, len |-> 0]

\* the image is opened once decoder_info has accepted it
ImageOpenStep ==
    /\ pc = "done" /\ result = LV_RESULT_OK
    /\ \E rc_open \in BOOLEAN :
          decoder_open(src_type, TRUE, TRUE, TRUE, TRUE, TRUE, TRUE, TRUE, rc_open,
                       ImageSubSample(data))
    /\ UNCHANGED scan_vars

ImageAreaStep ==
    /\ \E full_area \in SessionAreas, rc_dec \in BOOLEAN :
          decoder_get_area(full_area, TRUE, TRUE, TRUE, rc_dec, Faults)
    /\ UNCHANGED scan_vars

NextImage ==
    BeginStep \/ SoiStep \/ LoopStep \/ AfterStep
        \/ ImageOpenStep \/ ImageAreaStep \/ CloseStep

SpecImage == InitImage /\ [][NextImage]_vars

(***************************************************************************)
(* Claims about the session.                                               *)
(***************************************************************************)
FourCodes == {17, 33, 18, 34}

\* C1: for every requested rectangle and every subsampling code 0x11, 0x21,
\* 0x12, 0x22, the rectangle decoder_get_area reports in the Pending state
\* contains the requested rectangle.
AlignedContainsRequest ==
    (call.op = "get_area" /\ call.pending
        /\ jpgs[user_data].ucSubSample \in FourCodes)
    => /\ decoded_area.x1 <= call.full_area.x1
       /\ decoded_area.y1 <= call.full_area.y1
       /\ decoded_area.x2 >= call.full_area.x2
       /\ decoded_area.y2 >= call.full_area.y2

\* C2: once a decoder_get_area call of the session has succeeded, every later
\* call that is handed the record that call filled in returns
\* LV_RESULT_INVALID, allocates nothing, runs no decode pass and leaves the
\* decoded buffer, the reported area and the decoder handle as they were.
OneShotCompletion ==
    [][(completed /\ call'.op = "get_area" /\ ~call'.fresh)
        => /\ call'.rc = LV_RESULT_INVALID
           /\ call'.allocs = {}
           /\ call'.decode = "none"
           /\ heap' = heap
           /\ bufs' = bufs
           /\ jpgs' = jpgs
           /\ dsc' = dsc
           /\ decoded_area' = decoded_area
           /\ user_data' = user_data]_vars

\* a second call has been made on the record of a successful first call
SecondCallAfterSuccess ==
    /\ completed
    /\ call.op = "get_area"
    /\ ~call.fresh
    /\ ~call.pending
    /\ call.rc = LV_RESULT_INVALID
    /\ dsc.decoded # NULL
    /\ heap[dsc.decoded] = "live"

\* C3: when the decode pass fails in the Pending state the session stays
\* Pending: the next call on the same record attempts the decode again
\* instead of reporting that no work is left.
FailedDecodeStaysPending ==
    [][(call.op = "get_area" /\ call.decode = "fail"
            /\ call'.op = "get_area" /\ ~call'.fresh)
        => call'.decode # "none"]_vars

\* C4: when a decoder_get_area call fails, the descriptor and the pixel data
\* it allocated have been freed when it returns and dsc->decoded points to no
\* freed region.
FailedAreaReleasesAll ==
    (call.op = "get_area" /\ call.pending /\ call.rc = LV_RESULT_INVALID)
    => /\ \A a \in call.allocs : heap[a] # "live"
       /\ ~Dangling(heap, dsc.decoded)
       /\ dsc.decoded # NULL => ~Dangling(heap, bufs[dsc.decoded].data)

\* C5: when decoder_open fails, the JPEGIMAGE, the file buffer and the file
\* that call acquired have been released when it returns and the decoder
\* keeps no reference to any of them.
FailedOpenReleasesAll ==
    (call.op = "open" /\ call.rc = LV_RESULT_INVALID)
    => /\ \A a \in call.allocs : heap[a] # "live"
       /\ call.fopen > 0 => call.fclose > 0
       /\ user_data \notin call.allocs

\* C6: a second decoder_close on a closed session releases nothing that the
\* first one released: neither the JPEGIMAGE, the file buffer nor the decoded
\* region.
CloseIdempotent ==
    [][(call.op = "close" /\ call'.op = "close")
        => \A a \in Addr : heap[a] = "freed" => heap'[a] = "freed"]_vars

(***************************************************************************)
(* Claims about decoder_info.                                              *)
(***************************************************************************)
\* C7: for a file source, on every exit path of decoder_info the file it
\* opened has been closed exactly once when it returns.
FileClosedOnReturn ==
    (pc = "done" /\ src_type = "FILE" /\ f_opens = 1) => f_closes = 1

\* C8: for every valid baseline stream decoder_info succeeds and reports the
\* width and height stored big-endian in the SOF0 payload, whatever segments
\* come before it.
ValidBaselineScanned ==
    (pc = "done" /\ IsValidBaseline(data) /\ (src_type = "FILE" => f_opens = 1))
    => /\ result = LV_RESULT_OK
       /\ header.w = SofWidth(data)
       /\ header.h = SofHeight(data)

\* a valid stream whose frame header lies behind two segments and outside
\* the first window has been scanned
FarFrameScanned ==
    /\ pc = "done"
    /\ IsValidBaseline(data)
    /\ Cardinality(Markers(data, 2)) = 3
    /\ FramePos(data) >= CBUF_SIZE
    /\ result = LV_RESULT_OK
    /\ header.w = 772 /\ header.h = 258

\* C9: decoder_info never succeeds on a stream that ends before the last
\* frame-header field it reads: a success takes bits per sample, height,
\* width and component count from inside the stream.
TruncatedNeverSucceeds ==
    (pc = "done" /\ result = LV_RESULT_OK) => base + i + 9 < Len(data)

\* the marker the padding was put before can still be met in the window
PadInWindow == (IF pad.pos = 2 THEN 2 ELSE 0) + pad.len <= CBUF_SIZE - 2

\* C10: an even number of non-marker padding bytes put before a marker of a
\* stream of valid segments does not change what decoder_info returns and
\* reports, as long as that marker stays inside the window.
PaddingKeepsResult ==
    (pc = "done" /\ prev.valid /\ IsValidBaseline(prev.data) /\ PadInWindow
        /\ (src_type = "FILE" => f_opens = 1))
    => /\ result = prev.result
       /\ result = LV_RESULT_OK => header = prev.header

\* C11: a stream whose frame header is SOF1, SOF2 or SOF3 and that holds no
\* SOF0 segment, with or without padding before one of its markers, is
\* rejected, and the header record is left as the caller handed it in.
VariantRejected ==
    (pc = "done" /\ (IF prev.valid THEN IsVariantFramed(prev.data)
                                   ELSE IsVariantFramed(data)))
    => /\ result = LV_RESULT_INVALID
       /\ header = IF prev.valid THEN prev.header ELSE BlankHeader

\* C14: the format a successful scan reports is grayscale when bits per
\* sample times components is 8 or the build's depth is 8, otherwise RGB565
\* when the depth is 16, otherwise ARGB8888; nothing else in the stream
\* enters it.
FormatFromBppAndDepth ==
    (pc = "done" /\ result = LV_RESULT_OK
        /\ i + 9 < CBUF_SIZE /\ base + i + 9 < Len(data))
    => LET bpp == data[base + i + 5] * data[base + i + 10]
       IN header.cf = IF bpp = 8 \/ LV_COLOR_DEPTH = 8 THEN "L8"
                      ELSE IF LV_COLOR_DEPTH = 16 THEN "RGB565"
                      ELSE "ARGB8888"

\* a three-component image scanned on a 16-bit build
ColourOnSixteenBit ==
    /\ pc = "done" /\ result = LV_RESULT_OK /\ IsValidBaseline(data)
    /\ data[FramePos(data) + 5] * data[FramePos(data) + 10] = 24
    /\ LV_COLOR_DEPTH = 16
    /\ header.cf = "RGB565"

\* C15: whenever decoder_info returns LV_RESULT_INVALID the caller's header
\* record is as it was when the call was made.
FailureKeepsHeader ==
    (pc = "done" /\ result = LV_RESULT_INVALID)
    => header = IF prev.valid THEN prev.header ELSE BlankHeader

\* a failure that comes after the frame fields were read
RejectedAfterFields ==
    /\ pc = "done" /\ result = LV_RESULT_INVALID
    /\ IsFrameKind(iMarker) /\ ~IsBaseline(iMarker)
    /\ f_closes = IF src_type = "FILE" THEN 1 ELSE 0

\* C18: every read of cBuf uses an index in 0..31: the marker at i, the
\* length at i+2..i+3 when a segment is skipped, the frame fields at
\* i+4..i+9 when a frame header was found.
WindowReadsInBounds ==
    /\ (pc = "loop" /\ i < CBUF_SIZE /\ iMarker # SOF0 /\ j < Len(data))
         => /\ i + 1 < CBUF_SIZE
            /\ LET m == BitAnd(MOTOSHORT(CB(cBuf, i), CB(cBuf, i + 1)), 65532)
               IN (m >= 65280 /\ m # SOF0) => i + 3 < CBUF_SIZE
    /\ (pc = "done" /\ IsFrameKind(iMarker)) => i + 9 < CBUF_SIZE

\* C19: a pass of the marker loop that stays in the loop either moves the
\* window cursor on by 2, inside the window, or moves the stream offset on
\* by at least 2; and every scan that enters the loop returns.
ScanTerminates ==
    /\ [][(pc = "loop" /\ pc' = "loop")
            => \/ i' = i + 2 /\ i' <= CBUF_SIZE /\ j' = j
               \/ j' >= j + 2 /\ j' <= Len(data) + 65537]_vars
    /\ (pc = "loop") ~> (pc = "done")

\* a scan that returned after resync steps and after a refill of the window
ReturnedAfterResyncAndRefill ==
    /\ pc = "done" /\ prev.valid /\ pad.len = 22
    /\ base > 0 /\ i > 2

(***************************************************************************)
(* Claims about the rectangle and the buffer of the first call.            *)
(***************************************************************************)
\* the MCU extents by subsampling code
GridOf(code) ==
    IF code = 33 THEN <<16, 8>>
    ELSE IF code = 18 THEN <<8, 16>>
    ELSE IF code = 34 THEN <<16, 16>>
    ELSE <<8, 8>>

\* C12: for every requested rectangle and every subsampling code, x1 and
\* x2 + 1 of the rectangle decoder_get_area reports are multiples of the MCU
\* width and y1 and y2 + 1 multiples of the MCU height.
EdgesOnMcuGrid ==
    (call.op = "get_area" /\ call.pending)
    => LET g == GridOf(jpgs[user_data].ucSubSample)
       IN /\ decoded_area.x1 % g[1] = 0
          /\ (decoded_area.x2 + 1) % g[1] = 0
          /\ decoded_area.y1 % g[2] = 0
          /\ (decoded_area.y2 + 1) % g[2] = 0

\* a request with a negative, unaligned left edge on a 16-wide grid
NegativeEdgeRounded ==
    /\ call.op = "get_area" /\ call.pending
    /\ jpgs[user_data].ucSubSample = 33
    /\ call.full_area.x1 < 0
    /\ decoded_area.x1 < call.full_area.x1
    /\ decoded_area.x2 > call.full_area.x2

\* bytes per pixel of a colour format
BytesOf(cf) ==
    IF cf = "L8" THEN 1 ELSE IF cf = "RGB565" THEN 2 ELSE IF cf = "ARGB8888" THEN 4 ELSE 0

\* C13: when decoder_get_area succeeds on an untouched record with no buffer
\* from an earlier call, the size of the pixel buffer is width x height of
\* the reported rectangle x the bytes per pixel of the format the region is
\* tagged with, on every build.
BufferSizeMatchesFormat ==
    (call.op = "get_area" /\ call.pending /\ call.rc = LV_RESULT_OK
        /\ Cardinality(call.allocs) = 2)
    => LET b == bufs[dsc.decoded]
           w == (decoded_area.x2 - decoded_area.x1) + 1
           h == (decoded_area.y2 - decoded_area.y1) + 1
       IN b.data_size = (w * h) * BytesOf(b.header.cf)

(***************************************************************************)
(* Claims about the blocks of a session.                                   *)
(***************************************************************************)
\* C16: in every sequence of decoder_open, decoder_get_area and
\* decoder_close calls of one session, whatever allocations, JPEG_openRAM
\* calls and decode passes fail, no block is freed twice and no freed block
\* is handed to JPEG_decode as frame buffer or to lv_draw_buf_destroy.
NoDoubleFreeNoStaleUse ==
    /\ \A a \in Addr : heap[a] # "refreed"
    /\ ub = {}

\* C20: for the same image in the same build, the colour format
\* decoder_info stored in the header equals the colour format
\* decoder_get_area tags the decoded region with.
ScanAndRegionAgree ==
    (pc = "done" /\ result = LV_RESULT_OK
        /\ call.op = "get_area" /\ call.rc = LV_RESULT_OK)
    => bufs[dsc.decoded].header.cf = header.cf

\* C17: with two images open on the one decoder and their calls
\* interleaved, every decoder_get_area call works on the JPEGIMAGE its own
\* session's decoder_open created and never on a null one, every
\* decoder_close frees its own session's JPEGIMAGE, and once both sessions
\* are closed no block is left allocated.
SessionsIsolated ==
    /\ call.op = "get_area" => call.jpg # NULL /\ call.jpg = call.own
    /\ call.op = "close" => call.jpg = call.own
    /\ "null_handle" \notin ub
    /\ (call.op = "close" /\ ~opened /\ ~other.opened)
         => \A a \in Addr : heap[a] # "live"
====
